---- MODULE Spec2Model ----
(***************************************************************************)
(* Model of MyApplication (src/src/1211/1211/MyApplication.h): the         *)
(* sequential life cycle of run() -- window, Vulkan instance, debug        *)
(* messenger, physical-device selection, event loop, teardown -- and the   *)
(* device-scoring functions pickPhysicalDevice, rateDeviceSuitability and  *)
(* findQueueFamilies.                                                      *)
(*                                                                         *)
(* The windowing library and the driver are the environment: every value   *)
(* they return is drawn with \E from a small set.  Exceptions thrown       *)
(* inside run() are not caught by the class, so a throw ends run():        *)
(* pc = "aborted" and error holds the message.                             *)
(***************************************************************************)
EXTENDS Integers, Sequences, FiniteSets, TLC

VARIABLES
    pc,                     \* position inside run()
    enableValidationLayers, \* compile-time switch (NDEBUG)
    glfwInitialized,        \* what glfwInit() achieved
    window_,                \* MyApplication::window_
    instance_,              \* MyApplication::instance_
    debugUtilsProcs,        \* whether the instance resolves the debug-utils entry points
    debugMessenger_,        \* MyApplication::debugMessenger_
    physicalDevice_,        \* MyApplication::physicalDevice_
    shouldClose,            \* the window's close flag
    error,                  \* message of the std::runtime_error that left run()
    devices,                \* what vkEnumeratePhysicalDevices reported
    scores,                 \* scores[i]: value rateDeviceSuitability returned for devices[i]
    indices,                \* indices[i]: final loop state of findQueueFamilies for devices[i]
    events                  \* creations and destructions, in program order

vars == << pc, enableValidationLayers, glfwInitialized, window_, instance_,
           debugUtilsProcs, debugMessenger_, physicalDevice_, shouldClose,
           error, devices, scores, indices, events >>

----------------------------------------------------------------------------
(* Bounds *)

MaxDevices == 2
MaxFamilies == 2

----------------------------------------------------------------------------
(* Vulkan flag values used by the source *)

VK_QUEUE_GRAPHICS_BIT == 1
VK_QUEUE_COMPUTE_BIT == 2
VK_DEBUG_UTILS_MESSAGE_SEVERITY_VERBOSE_BIT_EXT == 1
VK_DEBUG_UTILS_MESSAGE_SEVERITY_INFO_BIT_EXT == 16
VK_DEBUG_UTILS_MESSAGE_SEVERITY_WARNING_BIT_EXT == 256
VK_DEBUG_UTILS_MESSAGE_SEVERITY_ERROR_BIT_EXT == 4096
VK_DEBUG_UTILS_MESSAGE_TYPE_GENERAL_BIT_EXT == 1
VK_DEBUG_UTILS_MESSAGE_TYPE_VALIDATION_BIT_EXT == 2
VK_DEBUG_UTILS_MESSAGE_TYPE_PERFORMANCE_BIT_EXT == 4
VK_NULL_HANDLE == 0
DiscreteBonus == 1000

RECURSIVE BitOr(_, _)
BitOr(a, b) ==
    IF a = 0 THEN b
    ELSE IF b = 0 THEN a
    ELSE (IF (a % 2 = 1) \/ (b % 2 = 1) THEN 1 ELSE 0) + 2 * BitOr(a \div 2, b \div 2)

RECURSIVE BitAnd(_, _)
BitAnd(a, b) ==
    IF a = 0 \/ b = 0 THEN 0
    ELSE (IF (a % 2 = 1) /\ (b % 2 = 1) THEN 1 ELSE 0) + 2 * BitAnd(a \div 2, b \div 2)

----------------------------------------------------------------------------
(* 32-bit arithmetic.  A uint32_t is held as two 16-bit halves so that     *)
(* every value up to 2^32 - 1 is represented exactly; an int is a plain    *)
(* integer in -2^31 .. 2^31 - 1.                                           *)

Half == 65536

U32(h, l) == [hi |-> h, lo |-> l]

\* int -> uint32_t (the usual arithmetic conversion: modulo 2^32)
U32FromInt(i) == U32((i \div Half) % Half, i % Half)

\* uint32_t + uint32_t, modulo 2^32
U32Add(a, b) ==
    LET l == a.lo + b.lo
    IN  U32((a.hi + b.hi + (l \div Half)) % Half, l % Half)

\* uint32_t -> int (two's complement: values above INT_MAX become negative)
U32ToInt(u) ==
    IF u.hi >= Half \div 2 THEN (u.hi - Half) * Half + u.lo
    ELSE u.hi * Half + u.lo

----------------------------------------------------------------------------
(* Devices the driver may report *)

Family(count, flags) == [queueCount |-> count, queueFlags |-> flags]

Device(type, dim, fams) ==
    [deviceType |-> type, maxImageDimension2D |-> dim, queueFamilies |-> fams]

\* sequences over S of length at most n
SeqUpTo(S, n) == UNION { [1..k -> S] : k \in 0..n }

FamilyKinds ==
    { Family(c, f) : c \in {0, 1},
                     f \in { VK_QUEUE_GRAPHICS_BIT, VK_QUEUE_COMPUTE_BIT,
                             BitOr(VK_QUEUE_GRAPHICS_BIT, VK_QUEUE_COMPUTE_BIT) } }

\* inputs of the function-level specification
RateTypes == { "DISCRETE_GPU", "INTEGRATED_GPU", "CPU" }

RateDims ==
    { U32(0, 0), U32(0, 4096), U32(0, 8192), U32(32767, 64535), U32(32767, 64536),
      U32(32767, 65535), U32(32768, 0), U32(65535, 64536), U32(65535, 65535) }

RateDevices ==
    { Device(t, d, q) : t \in RateTypes, d \in RateDims,
                        q \in SeqUpTo(FamilyKinds, MaxFamilies) }

\* inputs of the life-cycle specification
RunTypes == { "DISCRETE_GPU", "INTEGRATED_GPU" }

RunDims == { U32(0, 0), U32(0, 4096), U32(32767, 64536), U32(65535, 64536) }

RunFamilyLists ==
    { << Family(0, BitOr(VK_QUEUE_GRAPHICS_BIT, VK_QUEUE_COMPUTE_BIT)),
         Family(1, VK_QUEUE_COMPUTE_BIT) >>,
      << Family(1, VK_QUEUE_COMPUTE_BIT), Family(1, VK_QUEUE_GRAPHICS_BIT) >>,
      << Family(1, VK_QUEUE_GRAPHICS_BIT) >> }

RunDevices ==
    { Device(t, d, q) : t \in RunTypes, d \in RunDims, q \in RunFamilyLists }

LayerNames == { "VK_LAYER_KHRONOS_validation", "VK_LAYER_LUNARG_api_dump" }

validationLayers == << "VK_LAYER_KHRONOS_validation" >>

----------------------------------------------------------------------------
(* Error messages *)

ErrLayers == "validation layers requested, but not available!"
ErrInstance == "failed to create instance!"
ErrMessenger == "failed to set up debug messenger!"
ErrNoGpu == "failed to find GPUs with Vulkan support!"
ErrNoSuitable == "failed to find a suitable GPU!"
NoError == ""

----------------------------------------------------------------------------
(* findQueueFamilies *)

\* std::optional<uint32_t> graphicsFamily
NoIndices == [has_value |-> FALSE, value |-> 0]

isComplete(ind) == ind.has_value

\* the test of one queue family inside the loop
IsGraphicsFamily(queueFamily) ==
    queueFamily.queueCount > 0
        /\ BitAnd(queueFamily.queueFlags, VK_QUEUE_GRAPHICS_BIT) # 0

\* The range-for over queueFamilies: k is the (1-based) position of the
\* element visited, i the local counter, ind the result so far.  The value
\* is the state of (i, indices) on leaving the loop.
\* variant: the loop has no break, so a later matching family overwrites
RECURSIVE findQueueFamiliesLoopNoBreak(_, _, _, _)
findQueueFamiliesLoopNoBreak(queueFamilies, k, i, ind) ==
    IF k > Len(queueFamilies) THEN [i |-> i, indices |-> ind]
    ELSE findQueueFamiliesLoopNoBreak(queueFamilies, k + 1, i + 1,
             IF IsGraphicsFamily(queueFamilies[k])
             THEN [has_value |-> TRUE, value |-> i]
             ELSE ind)

RECURSIVE findQueueFamiliesLoop(_, _, _, _)
findQueueFamiliesLoop(queueFamilies, k, i, ind) ==
    IF k > Len(queueFamilies) THEN [i |-> i, indices |-> ind]
    ELSE LET ind2 == IF IsGraphicsFamily(queueFamilies[k])
                     THEN [has_value |-> TRUE, value |-> i]
                     ELSE ind
         IN  IF isComplete(ind2) THEN [i |-> i, indices |-> ind2]
             ELSE findQueueFamiliesLoop(queueFamilies, k + 1, i + 1, ind2)

findQueueFamiliesRun(device) ==
    findQueueFamiliesLoop(device.queueFamilies, 1, 0, NoIndices)

findQueueFamilies(device) == findQueueFamiliesRun(device).indices

----------------------------------------------------------------------------
(* rateDeviceSuitability *)

\* score += deviceProperties.limits.maxImageDimension2D, with score an int
\* and the limit a uint32_t: the sum is formed in uint32_t and stored back
\* into the int.
AddDimension(score, maxImageDimension2D) ==
    U32ToInt(U32Add(U32FromInt(score), maxImageDimension2D))

\* variant: the isComplete test is missing
rateDeviceSuitabilityNoQueueCheck(device) ==
    AddDimension(IF device.deviceType = "DISCRETE_GPU" THEN 0 + DiscreteBonus ELSE 0,
                 device.maxImageDimension2D)

rateDeviceSuitability(device) ==
    LET score1 == IF device.deviceType = "DISCRETE_GPU" THEN 0 + DiscreteBonus ELSE 0
        score2 == AddDimension(score1, device.maxImageDimension2D)
    IN  IF ~isComplete(findQueueFamilies(device)) THEN 0 ELSE score2

----------------------------------------------------------------------------
(* pickPhysicalDevice.  A device handle is the position of the device in   *)
(* the enumeration (1 .. deviceCount); VK_NULL_HANDLE is 0.                *)

\* variant: the running maximum starts below zero
BestInitBelowZero == [best_device |-> VK_NULL_HANDLE, best_score |-> -1]

BestInit == [best_device |-> VK_NULL_HANDLE, best_score |-> 0]

\* variant: non-strict comparison, a later equal score replaces the selection
pickStepTieLast(best, device, score) ==
    IF best.best_score <= score
    THEN [best_device |-> device, best_score |-> score]
    ELSE best

\* variant: best_score is not updated together with best_device
pickStepScoreNotKept(best, device, score) ==
    IF best.best_score < score
    THEN [best_device |-> device, best_score |-> best.best_score]
    ELSE best

\* body of the for loop
pickStep(best, device, score) ==
    IF best.best_score < score
    THEN [best_device |-> device, best_score |-> score]
    ELSE best

RECURSIVE pickLoop(_, _, _)
pickLoop(devs, k, best) ==
    IF k > Len(devs) THEN best
    ELSE pickLoop(devs, k + 1, pickStep(best, k, rateDeviceSuitability(devs[k])))

\* variant: the deviceCount == 0 test is missing
pickPhysicalDeviceNoCountCheck(devs) ==
    LET best == pickLoop(devs, 1, BestInit)
    IN  IF best.best_device = VK_NULL_HANDLE
        THEN [error |-> ErrNoSuitable, device |-> VK_NULL_HANDLE]
        ELSE [error |-> NoError, device |-> best.best_device]

\* result: the exception thrown (NoError if none) and the handle returned
pickPhysicalDevice(devs) ==
    IF Len(devs) = 0 THEN [error |-> ErrNoGpu, device |-> VK_NULL_HANDLE]
    ELSE LET best == pickLoop(devs, 1, BestInit)
         IN  IF best.best_device = VK_NULL_HANDLE
             THEN [error |-> ErrNoSuitable, device |-> VK_NULL_HANDLE]
             ELSE [error |-> NoError, device |-> best.best_device]

----------------------------------------------------------------------------
(* Instance and debug messenger helpers *)

checkValidationLayerSupport(layers, availableLayers) ==
    \A n \in 1..Len(layers) : \E a \in availableLayers : layers[n] = a

\* variant: the info severity is enabled as well
populateDebugMessengerCreateInfoWithInfo ==
    [ messageSeverity |->
          BitOr(VK_DEBUG_UTILS_MESSAGE_SEVERITY_VERBOSE_BIT_EXT,
                BitOr(VK_DEBUG_UTILS_MESSAGE_SEVERITY_INFO_BIT_EXT,
                      BitOr(VK_DEBUG_UTILS_MESSAGE_SEVERITY_WARNING_BIT_EXT,
                            VK_DEBUG_UTILS_MESSAGE_SEVERITY_ERROR_BIT_EXT))),
      messageType |->
          BitOr(VK_DEBUG_UTILS_MESSAGE_TYPE_GENERAL_BIT_EXT,
                BitOr(VK_DEBUG_UTILS_MESSAGE_TYPE_VALIDATION_BIT_EXT,
                      VK_DEBUG_UTILS_MESSAGE_TYPE_PERFORMANCE_BIT_EXT)) ]

populateDebugMessengerCreateInfo ==
    [ messageSeverity |->
          BitOr(VK_DEBUG_UTILS_MESSAGE_SEVERITY_VERBOSE_BIT_EXT,
                BitOr(VK_DEBUG_UTILS_MESSAGE_SEVERITY_WARNING_BIT_EXT,
                      VK_DEBUG_UTILS_MESSAGE_SEVERITY_ERROR_BIT_EXT)),
      messageType |->
          BitOr(VK_DEBUG_UTILS_MESSAGE_TYPE_GENERAL_BIT_EXT,
                BitOr(VK_DEBUG_UTILS_MESSAGE_TYPE_VALIDATION_BIT_EXT,
                      VK_DEBUG_UTILS_MESSAGE_TYPE_PERFORMANCE_BIT_EXT)) ]

\* the messenger member before initializeDebugMessenger has stored a handle
NoMessenger == [created |-> FALSE, messageSeverity |-> 0, messageType |-> 0]

\* vkGetInstanceProcAddr for the create entry point, then the call itself
CreateDebugUtilsMessengerEXT(procs, driverResult) ==
    IF ~procs THEN "VK_ERROR_EXTENSION_NOT_PRESENT" ELSE driverResult

VkResults == { "VK_SUCCESS", "VK_ERROR_INITIALIZATION_FAILED" }

----------------------------------------------------------------------------
(* Initial states *)

InitFields ==
    /\ glfwInitialized = FALSE
    /\ window_ = "nullptr"
    /\ instance_ = "uninitialized"
    /\ debugUtilsProcs = FALSE
    /\ debugMessenger_ = NoMessenger
    /\ physicalDevice_ = VK_NULL_HANDLE
    /\ shouldClose = FALSE
    /\ error = NoError
    /\ scores = << >>
    /\ indices = << >>
    /\ events = << >>

\* a freshly constructed MyApplication on which run() is about to be called
Init ==
    /\ pc = "initializeWindow"
    /\ enableValidationLayers \in BOOLEAN
    /\ devices = << >>
    /\ InitFields

\* rateDeviceSuitability called on one device
InitRate ==
    /\ pc = "rateDeviceSuitability"
    /\ enableValidationLayers = FALSE
    /\ devices \in { << d >> : d \in RateDevices }
    /\ InitFields

Throw(msg) ==
    /\ pc' = "aborted"
    /\ error' = msg

----------------------------------------------------------------------------
(* Actions of run() *)

InitializeWindow ==
    /\ pc = "initializeWindow"
    /\ \E initOk \in BOOLEAN, createOk \in BOOLEAN :
          /\ glfwInitialized' = initOk
          /\ IF initOk /\ createOk
             THEN /\ window_' = "GLFWwindow"
                  /\ events' = Append(events, "window created")
             ELSE /\ window_' = "nullptr"
                  /\ UNCHANGED events
    /\ pc' = "createInstance"
    /\ UNCHANGED << enableValidationLayers, instance_, debugUtilsProcs,
                    debugMessenger_, physicalDevice_, shouldClose, error,
                    devices, scores, indices >>

\* The debug create info chained through pNext lives in the block of the
\* if statement and is out of scope when vkCreateInstance reads it; what
\* the driver makes of it is part of the result drawn here.
CreateInstance ==
    /\ pc = "createInstance"
    /\ \E availableLayers \in SUBSET LayerNames, result \in VkResults,
          procs \in BOOLEAN :
          IF enableValidationLayers
                /\ ~checkValidationLayerSupport(validationLayers, availableLayers)
          THEN /\ Throw(ErrLayers)
               /\ UNCHANGED << instance_, debugUtilsProcs, events >>
          ELSE IF result # "VK_SUCCESS"
          THEN /\ Throw(ErrInstance)
               /\ UNCHANGED << instance_, debugUtilsProcs, events >>
          ELSE /\ instance_' = "VkInstance"
               /\ debugUtilsProcs' = (enableValidationLayers /\ procs)
               /\ events' = Append(events, "instance created")
               /\ pc' = "initializeDebugMessenger"
               /\ UNCHANGED error
    /\ UNCHANGED << enableValidationLayers, glfwInitialized, window_,
                    debugMessenger_, physicalDevice_, shouldClose, devices,
                    scores, indices >>

InitializeDebugMessenger ==
    /\ pc = "initializeDebugMessenger"
    /\ IF ~enableValidationLayers
       THEN /\ pc' = "pickPhysicalDevice"
            /\ UNCHANGED << debugMessenger_, error, events >>
       ELSE \E driverResult \in VkResults :
               IF CreateDebugUtilsMessengerEXT(debugUtilsProcs, driverResult) # "VK_SUCCESS"
               THEN /\ Throw(ErrMessenger)
                    /\ UNCHANGED << debugMessenger_, events >>
               ELSE /\ debugMessenger_' =
                          [ created |-> TRUE,
                            messageSeverity |-> populateDebugMessengerCreateInfo.messageSeverity,
                            messageType |-> populateDebugMessengerCreateInfo.messageType ]
                    /\ events' = Append(events, "messenger created")
                    /\ pc' = "pickPhysicalDevice"
                    /\ UNCHANGED error
    /\ UNCHANGED << enableValidationLayers, glfwInitialized, window_, instance_,
                    debugUtilsProcs, physicalDevice_, shouldClose, devices,
                    scores, indices >>

PickPhysicalDevice ==
    /\ pc = "pickPhysicalDevice"
    /\ \E devs \in SeqUpTo(RunDevices, MaxDevices) :
          LET r == pickPhysicalDevice(devs)
          IN  /\ devices' = devs
              /\ IF Len(devs) = 0
                 THEN UNCHANGED << scores, indices >>
                 ELSE /\ scores' = [ k \in 1..Len(devs) |-> rateDeviceSuitability(devs[k]) ]
                      /\ indices' = [ k \in 1..Len(devs) |-> findQueueFamiliesRun(devs[k]) ]
              /\ IF r.error # NoError
                 THEN /\ Throw(r.error)
                      /\ UNCHANGED physicalDevice_
                 ELSE /\ physicalDevice_' = r.device
                      /\ pc' = "mainloop"
                      /\ UNCHANGED error
    /\ UNCHANGED << enableValidationLayers, glfwInitialized, window_, instance_,
                    debugUtilsProcs, debugMessenger_, shouldClose, events >>

\* one turn of the loop: the close flag is clear, glfwPollEvents runs and
\* may deliver a close request
MainloopPoll ==
    /\ pc = "mainloop"
    /\ window_ # "nullptr"
    /\ ~shouldClose
    /\ \E closeRequest \in BOOLEAN : shouldClose' = closeRequest
    /\ events' = IF events # << >> /\ events[Len(events)] = "event loop"
                 THEN events ELSE Append(events, "event loop")
    /\ UNCHANGED << pc, enableValidationLayers, glfwInitialized, window_,
                    instance_, debugUtilsProcs, debugMessenger_,
                    physicalDevice_, error, devices, scores, indices >>

MainloopExit ==
    /\ pc = "mainloop"
    /\ window_ # "nullptr"
    /\ shouldClose
    /\ pc' = "finalizeVulkan"
    /\ UNCHANGED << enableValidationLayers, glfwInitialized, window_, instance_,
                    debugUtilsProcs, debugMessenger_, physicalDevice_,
                    shouldClose, error, devices, scores, indices, events >>

\* glfwWindowShouldClose(nullptr): the library reads through the null
\* window pointer; the loop may go on, end, or the process may die.
MainloopNullWindow ==
    /\ pc = "mainloop"
    /\ window_ = "nullptr"
    /\ pc' \in { "mainloop", "finalizeVulkan", "crashed" }
    /\ UNCHANGED << enableValidationLayers, glfwInitialized, window_, instance_,
                    debugUtilsProcs, debugMessenger_, physicalDevice_,
                    shouldClose, error, devices, scores, indices, events >>

\* finalizeDebugMessenger: vkGetInstanceProcAddr answers for the instance,
\* so the destroy entry point resolves exactly when the create entry point
\* did (debugUtilsProcs); an unresolved entry point is a silent return.
finalizeDebugMessengerEvents(ev) ==
    IF ~enableValidationLayers THEN ev
    ELSE IF ~debugUtilsProcs THEN ev
    ELSE Append(ev, "messenger destroyed")

\* variant: the instance is destroyed before the debug messenger
FinalizeVulkanInstanceFirst ==
    /\ pc = "finalizeVulkan"
    /\ events' = finalizeDebugMessengerEvents(Append(events, "instance destroyed"))
    /\ pc' = "finalizeWindow"
    /\ UNCHANGED << enableValidationLayers, glfwInitialized, window_, instance_,
                    debugUtilsProcs, debugMessenger_, physicalDevice_,
                    shouldClose, error, devices, scores, indices >>

FinalizeVulkan ==
    /\ pc = "finalizeVulkan"
    /\ events' = Append(finalizeDebugMessengerEvents(events), "instance destroyed")
    /\ pc' = "finalizeWindow"
    /\ UNCHANGED << enableValidationLayers, glfwInitialized, window_, instance_,
                    debugUtilsProcs, debugMessenger_, physicalDevice_,
                    shouldClose, error, devices, scores, indices >>

FinalizeWindow ==
    /\ pc = "finalizeWindow"
    /\ events' = IF window_ # "nullptr"
                 THEN Append(events, "window destroyed") ELSE events
    /\ glfwInitialized' = FALSE
    /\ pc' = "done"
    /\ UNCHANGED << enableValidationLayers, window_, instance_, debugUtilsProcs,
                    debugMessenger_, physicalDevice_, shouldClose, error,
                    devices, scores, indices >>

Next ==
    \/ InitializeWindow
    \/ CreateInstance
    \/ InitializeDebugMessenger
    \/ PickPhysicalDevice
    \/ MainloopPoll
    \/ MainloopExit
    \/ MainloopNullWindow
    \/ FinalizeVulkan
    \/ FinalizeWindow

Spec == Init /\ [][Next]_vars

----------------------------------------------------------------------------
(* rateDeviceSuitability applied to a single device *)

RateDeviceSuitability ==
    /\ pc = "rateDeviceSuitability"
    /\ scores' = << rateDeviceSuitability(devices[1]) >>
    /\ indices' = << findQueueFamiliesRun(devices[1]) >>
    /\ pc' = "rated"
    /\ UNCHANGED << enableValidationLayers, glfwInitialized, window_, instance_,
                    debugUtilsProcs, debugMessenger_, physicalDevice_,
                    shouldClose, error, devices, events >>

NextRate == RateDeviceSuitability

SpecRate == InitRate /\ [][NextRate]_vars

----------------------------------------------------------------------------
(* Properties *)

\* pickPhysicalDevice returned a handle and run() went on
PickReturned == pc \in { "mainloop", "finalizeVulkan", "finalizeWindow", "done", "crashed" }

\* pickPhysicalDevice has been called and has returned or thrown
PickActed == PickReturned \/ (pc = "aborted" /\ error \in { ErrNoGpu, ErrNoSuitable })

\* some queue family of the device has queues and the graphics bit set
HasGraphicsQueue(device) ==
    \E j \in 1..Len(device.queueFamilies) :
        /\ device.queueFamilies[j].queueCount >= 1
        /\ device.queueFamilies[j].queueFlags % 2 = 1

IsDiscreteWithGraphics(device) ==
    device.deviceType = "DISCRETE_GPU" /\ HasGraphicsQueue(device)

\* C1: when some enumerated device scores above zero, the device returned
\* has the maximum score of the list and is the first device with that score.
C1_FirstMaximum ==
    (PickActed /\ Len(devices) > 0 /\ (\E k \in 1..Len(devices) : scores[k] > 0))
        => /\ PickReturned
           /\ physicalDevice_ \in 1..Len(devices)
           /\ \A k \in 1..Len(devices) : scores[k] <= scores[physicalDevice_]
           /\ \A k \in 1..(physicalDevice_ - 1) : scores[k] < scores[physicalDevice_]

C1_Witness ==
    /\ PickReturned
    /\ Len(devices) = 2
    /\ scores[1] = scores[2]
    /\ scores[1] > 0
    /\ physicalDevice_ = 1

\* every maxImageDimension2D of the list is small enough for its score to
\* fit in an int
ScoresFitInt == \A k \in 1..Len(devices) : devices[k].maxImageDimension2D.hi < 32767

\* C2 as stated: whenever the list holds a discrete GPU with a graphics
\* queue family, the device returned is a discrete GPU.  The statement is
\* taken on the lists whose scores all fit in an int, so that a violation
\* shows the summed score itself preferring an integrated GPU.
C2_AlwaysDiscrete ==
    (PickActed /\ ScoresFitInt
        /\ (\E k \in 1..Len(devices) : IsDiscreteWithGraphics(devices[k])))
        => /\ PickReturned
           /\ devices[physicalDevice_].deviceType = "DISCRETE_GPU"

\* C2 amended: whenever the list holds a discrete GPU with a graphics queue
\* family, a returned device never scores lower than that discrete GPU, and
\* no device is returned only if every such discrete GPU scores zero or less.
C2_NeverLowerThanDiscrete ==
    (PickActed /\ (\E k \in 1..Len(devices) : IsDiscreteWithGraphics(devices[k])))
        => \A k \in 1..Len(devices) :
              IsDiscreteWithGraphics(devices[k])
                 => IF PickReturned
                    THEN scores[physicalDevice_] >= scores[k]
                    ELSE scores[k] <= 0

C2_Witness ==
    /\ PickReturned
    /\ devices[physicalDevice_].deviceType = "INTEGRATED_GPU"
    /\ \E k \in 1..Len(devices) :
          /\ IsDiscreteWithGraphics(devices[k])
          /\ scores[k] > 0
          /\ scores[k] < scores[physicalDevice_]

\* C3: with zero devices enumerated the call fails with the "no GPUs with
\* Vulkan support" error, nothing is scored and nothing is selected.
C3_EmptyListNoHardware ==
    (PickActed /\ Len(devices) = 0)
        => /\ pc = "aborted"
           /\ error = ErrNoGpu
           /\ error # ErrNoSuitable
           /\ scores = << >>
           /\ physicalDevice_ = VK_NULL_HANDLE

C3_Witness ==
    /\ pc = "aborted"
    /\ error = ErrNoGpu
    /\ Len(devices) = 0
    /\ "instance created" \in { events[n] : n \in 1..Len(events) }

\* C4: a non-empty list without any positive score fails with the "no
\* suitable GPU" error and selects nothing; a returned device always has a
\* strictly positive score.
C4_NoPositiveNoSuitable ==
    /\ (PickActed /\ Len(devices) > 0 /\ (\A k \in 1..Len(devices) : scores[k] <= 0))
          => /\ pc = "aborted"
             /\ error = ErrNoSuitable
             /\ physicalDevice_ = VK_NULL_HANDLE
    /\ PickReturned
          => /\ physicalDevice_ \in 1..Len(devices)
             /\ scores[physicalDevice_] > 0

C4_Witness ==
    /\ pc = "aborted"
    /\ error = ErrNoSuitable
    /\ Len(devices) = 2
    /\ HasGraphicsQueue(devices[1])
    /\ scores[1] = 0
    /\ scores[2] < 0

\* C5: a device without a queue family that has queues and the graphics bit
\* scores exactly 0, whatever its type and image dimension, and is never
\* the device selected.
C5_NoGraphicsQueueScoresZero ==
    \A k \in 1..Len(scores) :
        ~HasGraphicsQueue(devices[k])
            => /\ scores[k] = 0
               /\ physicalDevice_ # k

C5_Witness ==
    /\ PickReturned
    /\ Len(devices) = 2
    /\ devices[1].deviceType = "DISCRETE_GPU"
    /\ devices[1].maxImageDimension2D = U32(0, 4096)
    /\ ~HasGraphicsQueue(devices[1])
    /\ scores[1] = 0
    /\ devices[2].deviceType = "INTEGRATED_GPU"
    /\ physicalDevice_ = 2

\* C6: graphicsFamily is the index of the first family, in reported order,
\* with queueCount > 0 and the graphics bit; every earlier family fails the
\* test, the scan stops at the match, and without a match there is no value.
C6_FirstGraphicsFamily ==
    \A k \in 1..Len(indices) :
        LET fams == devices[k].queueFamilies
            Ok(j) == fams[j].queueCount >= 1 /\ fams[j].queueFlags % 2 = 1
            r == indices[k]
        IN  IF \E j \in 1..Len(fams) : Ok(j)
            THEN /\ r.indices.has_value
                 /\ r.indices.value + 1 \in 1..Len(fams)
                 /\ Ok(r.indices.value + 1)
                 /\ \A j \in 1..r.indices.value : ~Ok(j)
                 /\ r.i = r.indices.value
            ELSE /\ ~r.indices.has_value
                 /\ r.i = Len(fams)

C6_Witness ==
    /\ pc = "rated"
    /\ Len(devices[1].queueFamilies) = 2
    /\ devices[1].queueFamilies[1] = Family(1, VK_QUEUE_GRAPHICS_BIT)
    /\ devices[1].queueFamilies[2] = Family(1, VK_QUEUE_GRAPHICS_BIT)
    /\ indices[1].indices = [has_value |-> TRUE, value |-> 0]

\* C7: the event loop is entered only when every initialization step has
\* succeeded: the windowing library is initialized and the window, the
\* instance, the debug messenger (with validation enabled) and a selected
\* physical device all exist.
C7_LoopOnlyAfterFullInit ==
    pc = "mainloop"
        => /\ glfwInitialized
           /\ window_ # "nullptr"
           /\ instance_ = "VkInstance"
           /\ enableValidationLayers => debugMessenger_.created
           /\ physicalDevice_ # VK_NULL_HANDLE

ExpectedEvents ==
    << "window created", "instance created" >>
        \o (IF enableValidationLayers THEN << "messenger created" >> ELSE << >>)
        \o << "event loop" >>
        \o (IF enableValidationLayers THEN << "messenger destroyed" >> ELSE << >>)
        \o << "instance destroyed", "window destroyed" >>

\* C8: in a run whose event loop is ended by the window's close request,
\* creations and destructions happen in the order window, instance, debug
\* messenger, event loop, debug messenger destroyed, instance destroyed,
\* window destroyed, each exactly once.
C8_TeardownOrder ==
    window_ # "nullptr"
        => /\ Len(events) <= Len(ExpectedEvents)
           /\ events = SubSeq(ExpectedEvents, 1, Len(events))
           /\ pc = "done" => events = ExpectedEvents

C8_Witness ==
    /\ pc = "done"
    /\ window_ # "nullptr"
    /\ shouldClose
    /\ enableValidationLayers
    /\ events[5] = "messenger destroyed"
    /\ events[6] = "instance destroyed"

\* C9 as stated: the messenger is created with exactly the severities
\* warning and error and exactly the types general, validation, performance.
C9_WarningErrorOnly ==
    debugMessenger_.created
        => /\ debugMessenger_.messageSeverity = 256 + 4096
           /\ debugMessenger_.messageType = 1 + 2 + 4

\* C9 amended: the messenger is created with exactly the severities
\* verbose, warning and error (info is not enabled) and exactly the types
\* general, validation and performance.
C9_VerboseWarningError ==
    debugMessenger_.created
        => /\ debugMessenger_.messageSeverity = 1 + 256 + 4096
           /\ (debugMessenger_.messageSeverity \div 16) % 2 = 0
           /\ debugMessenger_.messageType = 1 + 2 + 4

C9_Witness ==
    /\ debugMessenger_.created
    /\ pc = "pickPhysicalDevice"

\* C10: for a device with a graphics-capable queue family the score is
\* exactly maxImageDimension2D, plus 1000 for a discrete GPU, for every
\* 32-bit value of maxImageDimension2D; it is never negative.
C10_ExactSum ==
    \A k \in 1..Len(scores) :
        HasGraphicsQueue(devices[k])
            => LET dim == devices[k].maxImageDimension2D
                   lo == dim.lo + (IF devices[k].deviceType = "DISCRETE_GPU" THEN 1000 ELSE 0)
                   hi == dim.hi + (lo \div Half)
               IN  /\ scores[k] >= 0
                   /\ hi < Half \div 2
                   /\ scores[k] = hi * Half + (lo % Half)

====
